---- MODULE Spec2Model ----
(***************************************************************************)
(* Hetzner traffic watchdog: a Discord bot that polls the provider's       *)
(* server list on an interval, shuts down servers over the kill threshold  *)
(* and keeps report messages in a channel.                                 *)
(*                                                                         *)
(* Two variants of the program are in the repository:                      *)
(*   "multi"  src/unnamed/part_001  (several API tokens, per-token catch)  *)
(*   "index"  src/index.js          (one API token, no catch on listing)   *)
(* The variable `variant' selects which of the two is running.  Every      *)
(* action is one resumption of an async function: the response of the      *)
(* awaited external call plus the synchronous code up to the next await.   *)
(***************************************************************************)
EXTENDS Integers, Sequences, FiniteSets, TLC

\* ---------------------------------------------------------------- bounds
MaxCycles == 2          \* invocations of checkAndUpdate that are started

\* ------------------------------------------------------------- constants
DefaultNotif == 50      \* THRESHOLD_PERCENT_NOTIF default
DefaultKill == 90       \* THRESHOLD_PERCENT_KILL default

Undefined == "undefined"            \* the JavaScript value undefined
NoMsg == 0                          \* no message / no file content
SummaryKey == <<"Server Usage Report">>
FinalKey == <<"Final Server Status">>
TitlePrefix == "[pc] "              \* the emoji prefix of a per-server title

\* ids of the messages a previous run can have left in the channel; the
\* platform numbers the messages of this run after them
LeftoverIds == {1, 2}
FirstNewId == Cardinality(LeftoverIds) + 1

\* The provider's world: two servers, two credentials.
ServerIds == {1, 2}
TokA == "tokA"
TokB == "tokB"
\* outgoing_traffic / included_traffic pairs a listing can report
\* (below notify, between notify and kill, exactly at kill)
Traffic == {<<40, 100>>, <<60, 100>>, <<90, 100>>}

VARIABLES
    variant,                \* which source file is running
    apiTokens,              \* configured credentials, in order
    sendAlways,             \* SEND_USAGE_NOTIF_ALWAYS === 'true'
    obfuscate,              \* OBFUSCATE_SERVER_NAMES_FROM_CONSOLE_LOG === 'true'
    THRESHOLD_PERCENT_NOTIF,
    THRESHOLD_PERCENT_KILL,
    MESSAGE_ID,             \* pre-seeded message id from the environment
    names,                  \* provider side: server id -> name (sequence of characters)
    dataFile,               \* content of ./data.json: a message id or NoMsg
    channelMsgs,            \* live messages of the channel
    embedMessages,          \* in-memory map: slot key -> message id (NoMsg = unset)
    handler,                \* the 'ready' handler: its position and locals
    inv,                    \* running invocations of checkAndUpdate, by cycle number
    cycles,                 \* number of invocations started so far
    nextId,                 \* next message id the platform hands out
    exited,                 \* "no", or the uncaught error that ended the process
    history                 \* not state of the program: when followed, the ids of
                            \* the servers whose shutdown request failed in the
                            \* invocation that returned last

config == <<variant, apiTokens, sendAlways, obfuscate, THRESHOLD_PERCENT_NOTIF,
            THRESHOLD_PERCENT_KILL, MESSAGE_ID, names>>
vars == <<variant, apiTokens, sendAlways, obfuscate, THRESHOLD_PERCENT_NOTIF,
          THRESHOLD_PERCENT_KILL, MESSAGE_ID, names, dataFile, channelMsgs,
          embedMessages, handler, inv, cycles, nextId, exited, history>>

\* ------------------------------------------------------------- helpers
\* property read of a JavaScript object: a missing property is undefined
Prop(obj, f) == IF f \in DOMAIN obj THEN obj[f] ELSE Undefined

\* the credential a server belongs to on the provider side
Owner(id) == apiTokens[((id - 1) % Len(apiTokens)) + 1]

\* ids of a set in ascending order
RECURSIVE SortedSeq(_)
SortedSeq(S) ==
    IF S = {} THEN <<>>
    ELSE LET m == CHOOSE x \in S : \A y \in S : x <= y
         IN <<m>> \o SortedSeq(S \ {m})

Ids(seq) == {seq[i].id : i \in 1..Len(seq)}
LiveIds == {m.id : m \in channelMsgs}

\* ------------------------------------------------- pure functions of the code
Null == -1                          \* a counter the provider reports as null

\* x || 0
OrZero(x) == IF x = Null \/ x = 0 THEN 0 ELSE x

\* obfuscateServerName: first and last character kept, the rest masked
obfuscateServerName(name) ==
    IF ~obfuscate \/ Len(name) = 0 \/ Len(name) <= 2 THEN name
    ELSE <<name[1]>> \o [i \in 1..(Len(name) - 2) |-> "X"] \o <<name[Len(name)]>>

\* calculatePercentage then parseFloat: the percentage rounded to two
\* decimals, held as an integer number of hundredths of a percent
calculatePercentage(used, total) ==
    IF total # 0 THEN (used * 10000 * 2 + total) \div (2 * total) ELSE 0

\* a slip: the division made without the test of the limit
RawRatio_noZeroGuard(outgoing, limit) == [num |-> outgoing, den |-> limit]

\* rawPercentage: the exact ratio outgoing / limit, as numerator and denominator
RawRatio(outgoing, limit) ==
    IF limit # 0 THEN [num |-> outgoing, den |-> limit] ELSE [num |-> 0, den |-> 1]

\* ratio >= percent / 100
AtLeast(ratio, percent) == ratio.num * 100 >= percent * ratio.den

\* the record the map of checkAndUpdate builds from one listed server
MakeData(s) ==
    LET outgoing == OrZero(s.outgoing_traffic)
        limit == OrZero(s.included_traffic)
    IN [id |-> s.id,
        name |-> s.name,
        status |-> s.status,
        outgoing |-> outgoing,
        limit |-> limit,
        usagePercentage |-> calculatePercentage(outgoing, limit),
        rawPercentage |-> RawRatio(outgoing, limit)]

\* a slip: the kill test made against the notify threshold
IsKill_notifyThreshold(server) == AtLeast(server.rawPercentage, THRESHOLD_PERCENT_NOTIF)

IsKill(server) == AtLeast(server.rawPercentage, THRESHOLD_PERCENT_KILL)
\* a slip: the notify test made on the rounded percentage
IsNotify_roundedPercent(server) ==
    /\ ~AtLeast(server.rawPercentage, THRESHOLD_PERCENT_KILL)
    /\ server.usagePercentage >= THRESHOLD_PERCENT_NOTIF * 100

IsNotify(server) ==
    /\ ~AtLeast(server.rawPercentage, THRESHOLD_PERCENT_KILL)
    /\ AtLeast(server.rawPercentage, THRESHOLD_PERCENT_NOTIF)

\* buildEmbed: the summary payload
buildEmbed(servers, killed) ==
    [kind |-> "summary",
     color |-> IF Len(killed) > 0 THEN "red"
               ELSE IF Len(servers) > 0 THEN "orange" ELSE "green",
     killed |-> [i \in 1..Len(killed) |-> killed[i].id],
     servers |-> [i \in 1..Len(servers) |-> servers[i].id]]

\* title of one per-server embed; it is the key of the server's slot
Title(s) == <<TitlePrefix>> \o obfuscateServerName(s.name)

\* buildServerEmbeds: one payload per server
buildServerEmbeds(servers) ==
    [i \in 1..Len(servers) |->
        [title |-> Title(servers[i]),
         usage |-> servers[i].usagePercentage,
         color |-> IF AtLeast(servers[i].rawPercentage, THRESHOLD_PERCENT_KILL) THEN "red"
                   ELSE IF AtLeast(servers[i].rawPercentage, THRESHOLD_PERCENT_NOTIF)
                        THEN "orange" ELSE "green"]]

\* buildFinalStatusEmbed: the all-clear payload
buildFinalStatusEmbed(serverCount) ==
    [kind |-> "final", color |-> "green", count |-> serverCount]

\* embedMessages[key]: a key never stored reads as undefined
Lookup(em, key) == IF key \in DOMAIN em THEN em[key] ELSE NoMsg
Store(em, key, id) ==
    [k \in DOMAIN em \cup {key} |-> IF k = key THEN id ELSE em[k]]

\* ------------------------------------------------ checkAndUpdate, step by step
NoEmbed == [kind |-> "none"]

\* locals of one invocation; pc names the call the invocation is awaiting
NewInvocation ==
    [pc |-> "fetch",        \* fetchServers has issued the listing for the first token
     ti |-> 1,              \* index into apiTokens
     allServers |-> <<>>,
     allData |-> <<>>,
     toKill |-> <<>>,
     highUsage |-> <<>>,
     killed |-> <<>>,
     ki |-> 0,              \* index into toKill
     ei |-> 0,              \* index into serverEmbeds
     key |-> <<>>,          \* slot of the pending edit / send
     payload |-> NoEmbed,   \* embed of the pending edit / send
     embed |-> NoEmbed,     \* the summary embed
     reqs |-> <<>>]         \* shutdown requests this invocation has issued

\* the Authorization token of the shutdown request for one toKill entry
ShutdownToken(server) ==
    IF variant = "multi" THEN Prop(server, "_apiToken") ELSE apiTokens[1]

\* a slip: the all-clear written without the test of sendAlways
Report_ignoresSendAlways(r, em) ==
    IF Len(r.highUsage) > 0 \/ Len(r.killed) > 0
    THEN [r EXCEPT !.key = SummaryKey,
                   !.payload = r.embed,
                   !.pc = IF Lookup(em, SummaryKey) # NoMsg
                          THEN "reportEdit" ELSE "reportSend"]
    ELSE [r EXCEPT !.key = FinalKey,
                   !.payload = buildFinalStatusEmbed(Len(r.allData)),
                   !.pc = IF Lookup(em, FinalKey) # NoMsg
                          THEN "reportEdit" ELSE "reportSend"]

\* the summary / all-clear part of checkAndUpdate
Report(r, em) ==
    IF Len(r.highUsage) > 0 \/ Len(r.killed) > 0
    THEN [r EXCEPT !.key = SummaryKey,
                   !.payload = r.embed,
                   !.pc = IF Lookup(em, SummaryKey) # NoMsg
                          THEN "reportEdit" ELSE "reportSend"]
    ELSE IF sendAlways
    THEN [r EXCEPT !.key = FinalKey,
                   !.payload = buildFinalStatusEmbed(Len(r.allData)),
                   !.pc = IF Lookup(em, FinalKey) # NoMsg
                          THEN "reportEdit" ELSE "reportSend"]
    ELSE [r EXCEPT !.pc = "return"]

\* the loop over serverEmbeds, entered at index k
EmbedLoop(r, k, em) ==
    LET serverEmbeds == buildServerEmbeds(r.allData)
    IN IF k <= Len(serverEmbeds)
       THEN [r EXCEPT !.ei = k,
                      !.key = serverEmbeds[k].title,
                      !.payload = serverEmbeds[k],
                      !.pc = IF Lookup(em, serverEmbeds[k].title) # NoMsg
                             THEN "embedEdit" ELSE "embedSend"]
       ELSE Report(r, em)

\* the loop over toKill, entered at index k; after it the embeds are built
ShutdownLoop(r, k, em) ==
    IF k <= Len(r.toKill)
    THEN [r EXCEPT !.ki = k,
                   !.pc = "shutdown",
                   !.reqs = Append(@, [id |-> r.toKill[k].id,
                                       token |-> ShutdownToken(r.toKill[k]),
                                       result |-> "pending"])]
    ELSE EmbedLoop([r EXCEPT !.embed = buildEmbed(r.highUsage, r.killed)], 1, em)

\* a slip: the notify test made without the else, so that a server at the
\* kill threshold is in highUsage as well
Classify_withoutElse(r, em) ==
    LET allData == [i \in 1..Len(r.allServers) |-> MakeData(r.allServers[i])]
    IN ShutdownLoop([r EXCEPT !.allData = allData,
                              !.toKill = SelectSeq(allData, IsKill),
                              !.highUsage =
                                  SelectSeq(allData,
                                            LAMBDA d : AtLeast(d.rawPercentage,
                                                               THRESHOLD_PERCENT_NOTIF))],
                    1, em)

\* the code between the return of fetchServers and the first shutdown request
Classify(r, em) ==
    LET allData == [i \in 1..Len(r.allServers) |-> MakeData(r.allServers[i])]
    IN ShutdownLoop([r EXCEPT !.allData = allData,
                              !.toKill = SelectSeq(allData, IsKill),
                              !.highUsage = SelectSeq(allData, IsNotify)], 1, em)

\* the servers of one credential
Owned(token) == {id \in ServerIds : Owner(id) = token}

\* what one token's listing returns: the servers of that credential
Listing(token, traffic) ==
    LET ids == SortedSeq(Owned(token))
    IN [i \in 1..Len(ids) |->
           [id |-> ids[i],
            name |-> names[ids[i]],
            status |-> "running",
            outgoing_traffic |-> traffic[ids[i]][1],
            included_traffic |-> traffic[ids[i]][2]]]

\* { ...s, _apiToken: token }
WithToken(s, token) ==
    [f \in DOMAIN s \cup {"_apiToken"} |-> IF f = "_apiToken" THEN token ELSE s[f]]

Running == exited = "no"

\* nothing is followed
NoHistory == [follow |-> FALSE, failed |-> {}]

\* ids of the servers whose shutdown request failed in invocation r
FailedIn(r) == {r.reqs[k].id : k \in {j \in 1..Len(r.reqs) : r.reqs[j].result = "error"}}

\* an invocation resumes with locals r; returning from the first invocation
\* resumes the ready handler, which installs the interval timer
Resume(c, r) ==
    /\ inv' = IF r.pc = "return"
              THEN [d \in DOMAIN inv \ {c} |-> inv[d]]
              ELSE [inv EXCEPT ![c] = r]
    /\ handler' = IF r.pc = "return" /\ handler.pc = "checkAndUpdate"
                  THEN [handler EXCEPT !.pc = "interval"]
                  ELSE handler
    /\ history' = IF r.pc = "return" /\ history.follow
                  THEN [history EXCEPT !.failed = FailedIn(r)]
                  ELSE history

\* an error leaves checkAndUpdate or the ready handler: nothing catches the
\* rejected promise, and Node 20 ends the process on an unhandled rejection.
\* What the process held in memory is gone.
Reject(err) ==
    /\ exited' = err
    /\ inv' = <<>>
    /\ handler' = [pc |-> "exited", messages |-> {}, di |-> 1]
    /\ embedMessages' = <<>>
    /\ UNCHANGED history

\* ------------------------------------------------------------ persistence
\* loadMessageId: MESSAGE_ID if data.json can be read, else null.
\* The program defines it and never calls it.
loadMessageId == IF dataFile # NoMsg THEN MESSAGE_ID ELSE NoMsg

\* saveMessageId: overwrite data.json.  Defined and never called.
saveMessageId(id) == dataFile' = id

\* --------------------------------------------------- actions: one cycle
\* part_001 fetchServers: the listing of token ti returns
FetchServersReturns(c) ==
    /\ Running /\ variant = "multi"
    /\ c \in DOMAIN inv /\ inv[c].pc = "fetch"
    /\ \E traffic \in [Owned(apiTokens[inv[c].ti]) -> Traffic] :
         LET r == inv[c]
             token == apiTokens[r.ti]
             res == Listing(token, traffic)
             servers == [i \in 1..Len(res) |-> WithToken(res[i], token)]
             r1 == [r EXCEPT !.allServers = @ \o servers]
         IN IF r.ti < Len(apiTokens)
            THEN Resume(c, [r1 EXCEPT !.ti = @ + 1])
            ELSE Resume(c, Classify(r1, embedMessages))
    /\ UNCHANGED <<config, dataFile, channelMsgs, embedMessages, cycles, nextId,
                   exited>>

\* part_001 fetchServers: the listing of token ti fails; logged, token skipped
FetchServersThrows(c) ==
    /\ Running /\ variant = "multi"
    /\ c \in DOMAIN inv /\ inv[c].pc = "fetch"
    /\ LET r == inv[c]
       IN IF r.ti < Len(apiTokens)
          THEN Resume(c, [r EXCEPT !.ti = @ + 1])
          ELSE Resume(c, Classify(r, embedMessages))
    /\ UNCHANGED <<config, dataFile, channelMsgs, embedMessages, cycles, nextId,
                   exited>>

\* index.js fetchServers: the one listing returns
IndexFetchReturns(c) ==
    /\ Running /\ variant = "index"
    /\ c \in DOMAIN inv /\ inv[c].pc = "fetch"
    /\ \E traffic \in [Owned(apiTokens[1]) -> Traffic] :
         Resume(c, Classify([inv[c] EXCEPT !.allServers = Listing(apiTokens[1], traffic)],
                            embedMessages))
    /\ UNCHANGED <<config, dataFile, channelMsgs, embedMessages, cycles, nextId,
                   exited>>

\* index.js fetchServers: the listing fails and the error leaves checkAndUpdate
IndexFetchThrows(c) ==
    /\ Running /\ variant = "index"
    /\ c \in DOMAIN inv /\ inv[c].pc = "fetch"
    /\ Reject("listing failed")
    /\ UNCHANGED <<config, dataFile, channelMsgs, cycles, nextId>>

\* the provider carries out a shutdown only for the credential that owns the server
ProviderAccepts(req) == req.token = Owner(req.id)

\* shutdownServer returns true
ShutdownReturns(c) ==
    /\ Running
    /\ c \in DOMAIN inv /\ inv[c].pc = "shutdown"
    /\ LET r == inv[c]
       IN /\ ProviderAccepts(r.reqs[Len(r.reqs)])
          /\ Resume(c, ShutdownLoop([r EXCEPT !.killed = Append(@, r.toKill[r.ki]),
                                              !.reqs[Len(r.reqs)].result = "success"],
                                    r.ki + 1, embedMessages))
    /\ UNCHANGED <<config, dataFile, channelMsgs, embedMessages, cycles, nextId,
                   exited>>

\* a slip: the error of one request ends the loop over toKill
ShutdownThrows_abortsLoop(c) ==
    /\ Running
    /\ c \in DOMAIN inv /\ inv[c].pc = "shutdown"
    /\ LET r == inv[c]
       IN Resume(c, ShutdownLoop([r EXCEPT !.reqs[Len(r.reqs)].result = "error"],
                                 Len(r.toKill) + 1, embedMessages))
    /\ UNCHANGED <<config, dataFile, channelMsgs, embedMessages, cycles, nextId,
                   exited>>

\* a slip: a failed request is repeated at once
ShutdownThrows_retriesAtOnce(c) ==
    /\ Running
    /\ c \in DOMAIN inv /\ inv[c].pc = "shutdown"
    /\ LET r == inv[c]
       IN Resume(c, ShutdownLoop([r EXCEPT !.reqs[Len(r.reqs)].result = "error"],
                                 r.ki, embedMessages))
    /\ UNCHANGED <<config, dataFile, channelMsgs, embedMessages, cycles, nextId,
                   exited>>

\* shutdownServer catches the error of the request and returns false
ShutdownThrows(c) ==
    /\ Running
    /\ c \in DOMAIN inv /\ inv[c].pc = "shutdown"
    /\ LET r == inv[c]
       IN Resume(c, ShutdownLoop([r EXCEPT !.reqs[Len(r.reqs)].result = "error"],
                                 r.ki + 1, embedMessages))
    /\ UNCHANGED <<config, dataFile, channelMsgs, embedMessages, cycles, nextId,
                   exited>>

\* why an edit of the message stored under key fails
EditErrors(key) ==
    IF Lookup(embedMessages, key) \in LiveIds THEN {"edit failed"} ELSE {"Unknown Message"}

\* existingMessage.edit resolves
EmbedEdited(c) ==
    /\ Running
    /\ c \in DOMAIN inv /\ inv[c].pc = "embedEdit"
    /\ Lookup(embedMessages, inv[c].key) \in LiveIds
    /\ Resume(c, EmbedLoop(inv[c], inv[c].ei + 1, embedMessages))
    /\ UNCHANGED <<config, dataFile, channelMsgs, embedMessages, cycles, nextId,
                   exited>>

\* existingMessage.edit rejects: nothing catches it
EmbedEditThrows(c) ==
    /\ Running
    /\ c \in DOMAIN inv /\ inv[c].pc = "embedEdit"
    /\ \E err \in EditErrors(inv[c].key) : Reject(err)
    /\ UNCHANGED <<config, dataFile, channelMsgs, cycles, nextId>>

\* channel.send resolves with the new message, which is stored under the title
EmbedSent(c) ==
    /\ Running
    /\ c \in DOMAIN inv /\ inv[c].pc = "embedSend"
    /\ LET em == Store(embedMessages, inv[c].key, nextId)
       IN /\ embedMessages' = em
          /\ Resume(c, EmbedLoop(inv[c], inv[c].ei + 1, em))
    /\ channelMsgs' = channelMsgs \cup {[id |-> nextId, old |-> FALSE, slot |-> inv[c].key]}
    /\ nextId' = nextId + 1
    /\ UNCHANGED <<config, dataFile, cycles, exited>>

\* channel.send rejects: nothing catches it
EmbedSendThrows(c) ==
    /\ Running
    /\ c \in DOMAIN inv /\ inv[c].pc = "embedSend"
    /\ Reject("send failed")
    /\ UNCHANGED <<config, dataFile, channelMsgs, cycles, nextId>>

\* the edit of the summary / all-clear message resolves; checkAndUpdate returns
ReportEdited(c) ==
    /\ Running
    /\ c \in DOMAIN inv /\ inv[c].pc = "reportEdit"
    /\ Lookup(embedMessages, inv[c].key) \in LiveIds
    /\ Resume(c, [inv[c] EXCEPT !.pc = "return"])
    /\ UNCHANGED <<config, dataFile, channelMsgs, embedMessages, cycles, nextId,
                   exited>>

ReportEditThrows(c) ==
    /\ Running
    /\ c \in DOMAIN inv /\ inv[c].pc = "reportEdit"
    /\ \E err \in EditErrors(inv[c].key) : Reject(err)
    /\ UNCHANGED <<config, dataFile, channelMsgs, cycles, nextId>>

\* the send of the summary / all-clear message resolves; the message is stored
\* in embedMessages only (no saveMessageId); checkAndUpdate returns
ReportSent(c) ==
    /\ Running
    /\ c \in DOMAIN inv /\ inv[c].pc = "reportSend"
    /\ embedMessages' = Store(embedMessages, inv[c].key, nextId)
    /\ Resume(c, [inv[c] EXCEPT !.pc = "return"])
    /\ channelMsgs' = channelMsgs \cup {[id |-> nextId, old |-> FALSE, slot |-> inv[c].key]}
    /\ nextId' = nextId + 1
    /\ UNCHANGED <<config, dataFile, cycles, exited>>

ReportSendThrows(c) ==
    /\ Running
    /\ c \in DOMAIN inv /\ inv[c].pc = "reportSend"
    /\ Reject("send failed")
    /\ UNCHANGED <<config, dataFile, channelMsgs, cycles, nextId>>

\* the interval timer fires: checkAndUpdate is called, whatever else is running
\* (limit caps the number of invocations of a run)
TimerTick(limit) ==
    /\ Running
    /\ handler.pc = "interval"
    /\ cycles < limit
    /\ cycles' = cycles + 1
    /\ inv' = [d \in DOMAIN inv \cup {cycles + 1} |->
                  IF d = cycles + 1 THEN NewInvocation ELSE inv[d]]
    /\ UNCHANGED <<history, config, dataFile, channelMsgs, embedMessages, handler, nextId,
                   exited>>

\* somebody else deletes a message of the channel between two cycles
ExternalDelete(m) ==
    /\ Running
    /\ handler.pc = "interval" /\ DOMAIN inv = {}
    /\ m \in channelMsgs
    /\ channelMsgs' = channelMsgs \ {m}
    /\ UNCHANGED <<history, config, dataFile, embedMessages, handler, inv, cycles, nextId, exited>>

\* ------------------------------------------- actions: the 'ready' handler
\* messages of a set, newest (highest id) first
RECURSIVE NewestFirst(_)
NewestFirst(S) ==
    IF S = {} THEN <<>>
    ELSE LET m == CHOOSE x \in S : \A y \in S : x.id >= y.id
         IN <<m>> \o NewestFirst(S \ {m})

\* now - createdTimestamp < twoWeeks
toBulkDelete(messages) == {m \in messages : ~m.old}
toDeleteIndividually(messages) == NewestFirst({m \in messages : m.old})

\* while (messages.size >= 2); after the loop checkAndUpdate(channel) is called
LoopEnd(h) ==
    IF Cardinality(h.messages) >= 2
    THEN /\ handler' = [h EXCEPT !.pc = "msgFetch"]
         /\ UNCHANGED <<inv, cycles>>
    ELSE /\ handler' = [h EXCEPT !.pc = "checkAndUpdate"]
         /\ inv' = [d \in {1} |-> NewInvocation]
         /\ cycles' = 1

\* channel.messages.fetch({ limit: 100 }) resolves
MessagesFetched ==
    /\ Running
    /\ handler.pc = "msgFetch"
    /\ LET h == [handler EXCEPT !.messages = channelMsgs, !.di = 1]
       IN IF Cardinality(h.messages) > 0
          THEN /\ handler' =
                    [h EXCEPT !.pc = IF variant = "index" THEN "bulkDeleteAll"
                                     ELSE IF toBulkDelete(h.messages) # {}
                                     THEN "bulkDelete" ELSE "msgDelete"]
               /\ UNCHANGED <<inv, cycles>>
          ELSE LoopEnd(h)
    /\ UNCHANGED <<history, config, dataFile, channelMsgs, embedMessages, nextId, exited>>

\* part_001: channel.bulkDelete(toBulkDelete) resolves
BulkDelete ==
    /\ Running
    /\ handler.pc = "bulkDelete"
    /\ channelMsgs' = channelMsgs \ toBulkDelete(handler.messages)
    /\ IF Len(toDeleteIndividually(handler.messages)) > 0
       THEN /\ handler' = [handler EXCEPT !.pc = "msgDelete"]
            /\ UNCHANGED <<inv, cycles>>
       ELSE LoopEnd(handler)
    /\ UNCHANGED <<history, config, dataFile, embedMessages, nextId, exited>>

\* part_001: msg.delete() resolves for the next old message
MessageDeleted ==
    /\ Running
    /\ handler.pc = "msgDelete"
    /\ LET old == toDeleteIndividually(handler.messages)
       IN /\ channelMsgs' = channelMsgs \ {old[handler.di]}
          /\ IF handler.di < Len(old)
             THEN /\ handler' = [handler EXCEPT !.di = @ + 1]
                  /\ UNCHANGED <<inv, cycles>>
             ELSE LoopEnd(handler)
    /\ UNCHANGED <<history, config, dataFile, embedMessages, nextId, exited>>

\* part_001: msg.delete() rejects; the error is logged and the loop goes on
MessageDeleteFails ==
    /\ Running
    /\ handler.pc = "msgDelete"
    /\ LET old == toDeleteIndividually(handler.messages)
       IN IF handler.di < Len(old)
          THEN /\ handler' = [handler EXCEPT !.di = @ + 1]
               /\ UNCHANGED <<inv, cycles>>
          ELSE LoopEnd(handler)
    /\ UNCHANGED <<history, config, dataFile, channelMsgs, embedMessages, nextId, exited>>

\* the platform refuses a bulk delete of two or more messages when one of them
\* is older than two weeks (a single message is deleted by itself)
BulkRefused(messages) ==
    Cardinality(messages) >= 2 /\ \E m \in messages : m.old

\* index.js: channel.bulkDelete(messages) resolves
BulkDeleteAll ==
    /\ Running
    /\ handler.pc = "bulkDeleteAll"
    /\ ~BulkRefused(handler.messages)
    /\ channelMsgs' = channelMsgs \ handler.messages
    /\ LoopEnd(handler)
    /\ UNCHANGED <<history, config, dataFile, embedMessages, nextId, exited>>

\* index.js: channel.bulkDelete(messages) rejects; the handler's promise rejects
BulkDeleteAllThrows ==
    /\ Running
    /\ handler.pc = "bulkDeleteAll"
    /\ BulkRefused(handler.messages)
    /\ Reject("bulkDelete failed")
    /\ UNCHANGED <<config, dataFile, channelMsgs, cycles, nextId>>

\* ------------------------------------------------------------ specification
\* names of the two servers
DefaultNames == [id \in ServerIds |-> IF id = 1 THEN <<"w", "e", "b">> ELSE <<"d", "b">>]

\* what a previous run left behind: the channel's messages and the pointer
\* (data.json and the pre-seeded MESSAGE_ID) to its summary message
Leftovers ==
    {[msgs |-> {}, ptr |-> NoMsg],
     [msgs |-> {[id |-> 1, old |-> FALSE, slot |-> SummaryKey]}, ptr |-> 1],
     [msgs |-> {[id |-> 1, old |-> FALSE, slot |-> SummaryKey],
                [id |-> 2, old |-> TRUE, slot |-> <<"older run">>]}, ptr |-> 1]}

\* the state when 'ready' fires: channel fetched, first messages.fetch issued
InitCommon ==
    /\ variant \in {"multi", "index"}
    /\ apiTokens = IF variant = "multi" THEN <<TokA, TokB>> ELSE <<TokA>>
    /\ THRESHOLD_PERCENT_NOTIF = DefaultNotif
    /\ THRESHOLD_PERCENT_KILL = DefaultKill
    /\ embedMessages = <<>>
    /\ handler = [pc |-> "msgFetch", messages |-> {}, di |-> 1]
    /\ inv = <<>>
    /\ cycles = 0
    /\ nextId = FirstNewId
    /\ exited = "no"

Init ==
    /\ InitCommon
    /\ sendAlways \in BOOLEAN
    /\ obfuscate = FALSE
    /\ names = DefaultNames
    /\ history = NoHistory
    /\ \E l \in Leftovers :
         /\ channelMsgs = l.msgs
         /\ dataFile = l.ptr
         /\ MESSAGE_ID = l.ptr

Step(limit) ==
    \/ MessagesFetched
    \/ BulkDelete
    \/ MessageDeleted
    \/ MessageDeleteFails
    \/ BulkDeleteAll
    \/ BulkDeleteAllThrows
    \/ TimerTick(limit)
    \/ \E m \in channelMsgs : ExternalDelete(m)
    \/ \E c \in DOMAIN inv : FetchServersReturns(c)
    \/ \E c \in DOMAIN inv : FetchServersThrows(c)
    \/ \E c \in DOMAIN inv : IndexFetchReturns(c)
    \/ \E c \in DOMAIN inv : IndexFetchThrows(c)
    \/ \E c \in DOMAIN inv : ShutdownReturns(c)
    \/ \E c \in DOMAIN inv : ShutdownThrows(c)
    \/ \E c \in DOMAIN inv : EmbedEdited(c)
    \/ \E c \in DOMAIN inv : EmbedEditThrows(c)
    \/ \E c \in DOMAIN inv : EmbedSent(c)
    \/ \E c \in DOMAIN inv : EmbedSendThrows(c)
    \/ \E c \in DOMAIN inv : ReportEdited(c)
    \/ \E c \in DOMAIN inv : ReportEditThrows(c)
    \/ \E c \in DOMAIN inv : ReportSent(c)
    \/ \E c \in DOMAIN inv : ReportSendThrows(c)

Next == Step(MaxCycles)

Spec == Init /\ [][Next]_vars

\* one more tick of the timer: the second and the third invocation can overlap
NextOverlap == Step(MaxCycles + 1)

SpecOverlap == Init /\ [][NextOverlap]_vars

\* as Init, with the switch sendAlways off (the shutdown loop never reads
\* it) and the failed shutdown requests of each invocation followed
InitRetry ==
    /\ InitCommon
    /\ sendAlways = FALSE
    /\ obfuscate = FALSE
    /\ names = DefaultNames
    /\ history = [follow |-> TRUE, failed |-> {}]
    /\ \E l \in Leftovers :
         /\ channelMsgs = l.msgs
         /\ dataFile = l.ptr
         /\ MESSAGE_ID = l.ptr

SpecRetry == InitRetry /\ [][Next]_vars

\* ------------------------------------------------------------------ claims
\* the ratio of the claims: outgoing / included, 0 when nothing is included
RatioAtLeast(outgoing, included, percent) ==
    IF included = 0 THEN 0 >= percent ELSE outgoing * 100 >= percent * included

\* the listed server with this id in the snapshot of invocation r
Listed(r, id) == {i \in 1..Len(r.allServers) : r.allServers[i].id = id}

\* C1: a shutdown request is issued for a server only if the server's ratio
\* outgoing / included in this cycle's snapshot is at least the kill threshold;
\* a NOTIFY or OK server never gets one.
C1_ShutdownOnlyAtKillThreshold ==
    \A c \in DOMAIN inv : \A k \in 1..Len(inv[c].reqs) :
        \E i \in Listed(inv[c], inv[c].reqs[k].id) :
            RatioAtLeast(OrZero(inv[c].allServers[i].outgoing_traffic),
                         OrZero(inv[c].allServers[i].included_traffic),
                         THRESHOLD_PERCENT_KILL)

\* C1 witness: a cycle past its shutdown loop that issued a request for a
\* server at the kill threshold and none for the NOTIFY server beside it
C1_Witness ==
    \E c \in DOMAIN inv :
        /\ inv[c].pc \in {"embedSend", "embedEdit"}
        /\ Len(inv[c].allServers) = 2
        /\ Len(inv[c].reqs) = 1
        /\ Len(inv[c].highUsage) = 1

\* C2: every KILL server gets exactly one shutdown request in its cycle, and
\* the request carries the credential the server was listed with.
C2_RequestCarriesListingCredential ==
    \A c \in DOMAIN inv :
        /\ \A k \in 1..Len(inv[c].reqs) :
              /\ inv[c].reqs[k].id = inv[c].toKill[k].id
              /\ inv[c].reqs[k].token = Owner(inv[c].reqs[k].id)
        /\ inv[c].pc \notin {"fetch", "shutdown"} => Len(inv[c].reqs) = Len(inv[c].toKill)

\* messages of a slot that this process has sent and that are live
SentFor(key) == {m \in channelMsgs : m.id >= FirstNewId /\ m.slot = key}

\* C3: for every slot at most one message is ever sent, so at most one live
\* message exists per slot, also when the timer fires during a running cycle.
C3_OneMessagePerSlot ==
    \A m \in channelMsgs : Cardinality(SentFor(m.slot)) <= 1

\* C4: at most one invocation of checkAndUpdate is in progress at any moment.
C4_CyclesNeverOverlap == Cardinality(DOMAIN inv) <= 1

\* the edit that invocation c awaits is answered in this step
EditAnswered(c) ==
    /\ c \in DOMAIN inv
    /\ inv[c].pc \in {"embedEdit", "reportEdit"}
    /\ (c \notin DOMAIN inv' \/ inv'[c] # inv[c])

\* C5: when the edit of a slot's message fails because the message is gone,
\* the same reconciliation sends a new message and stores it as the slot's
\* mapping, so the mapping points to a live message afterwards.
C5_MissingMessageIsRecreated ==
    [][\A c \in DOMAIN inv :
          (EditAnswered(c) /\ Lookup(embedMessages, inv[c].key) \notin LiveIds)
          => /\ exited' = "no"
             /\ Lookup(embedMessages', inv[c].key) \in {m.id : m \in channelMsgs'}]_vars

\* C6: when the persisted pointer names a message that is live at process
\* start, the first reconciliation of the summary slot edits that message
\* and sends no new summary message.
C6_RestartReusesPointer ==
    loadMessageId # NoMsg =>
        \A c \in DOMAIN inv : ~(inv[c].key = SummaryKey /\ inv[c].pc = "reportSend")

\* no cycle is running and the timer is installed
BetweenCycles == Running /\ handler.pc = "interval" /\ DOMAIN inv = {}

\* C7: once a summary message has been created, between cycles the persisted
\* pointer holds the id of the summary slot's in-memory mapping.
C7_PointerFollowsSummary ==
    (BetweenCycles /\ Lookup(embedMessages, SummaryKey) # NoMsg)
        => dataFile = Lookup(embedMessages, SummaryKey)

\* ids of the requests of r that the provider answered with success
Succeeded(r) == {r.reqs[k].id : k \in {j \in 1..Len(r.reqs) : r.reqs[j].result = "success"}}

\* C8: a failed shutdown request only leaves its own candidate out of killed:
\* every candidate of the cycle gets its request, killed is exactly the set of
\* candidates whose request succeeded, and the cycle goes on to build the
\* summary from that set.
C8_ShutdownFailureIsIsolated ==
    \A c \in DOMAIN inv :
        LET r == inv[c]
        IN /\ Ids(r.killed) = Succeeded(r)
           /\ r.pc \notin {"fetch", "shutdown"} =>
                 /\ Len(r.reqs) = Len(r.toKill)
                 /\ \A k \in 1..Len(r.toKill) :
                       r.reqs[k].id = r.toKill[k].id /\ r.reqs[k].result # "pending"
                 /\ r.embed.kind = "summary"
                 /\ r.embed.killed = [i \in 1..Len(r.killed) |-> r.killed[i].id]

\* C8 witness: two candidates, the request of the first failed, the second
\* was asked all the same, and the cycle is writing its per-server reports
C8_Witness ==
    \E c \in DOMAIN inv :
        /\ Len(inv[c].toKill) = 2
        /\ Len(inv[c].reqs) = 2
        /\ inv[c].reqs[1].result = "error"
        /\ inv[c].pc \in {"embedSend", "embedEdit"}

\* errors of the external calls of a cycle
CycleErrors == {"listing failed", "send failed", "edit failed", "Unknown Message"}

\* C9: no error of an external call of a cycle is fatal: the process keeps
\* running, so the timer still starts the next cycle.
C9_NoCycleErrorIsFatal == exited \notin CycleErrors

\* invocation c returns in this step
Returns(c) == c \in DOMAIN inv /\ exited' = "no" /\ c \notin DOMAIN inv'

\* C10: a cycle with a server in the NOTIFY or KILL bucket writes a summary
\* payload to the summary slot before it returns.
C10_AlertCycleWritesSummary ==
    [][\A c \in DOMAIN inv :
          (Returns(c) /\ Len(inv[c].toKill) + Len(inv[c].highUsage) > 0)
          => /\ inv[c].pc \in {"reportEdit", "reportSend"}
             /\ inv[c].key = SummaryKey
             /\ inv[c].payload.kind = "summary"]_vars

\* a listed server of r whose ratio outgoing / included is at least percent
OverThreshold(r, percent) ==
    {i \in 1..Len(r.allServers) :
        RatioAtLeast(OrZero(r.allServers[i].outgoing_traffic),
                     OrZero(r.allServers[i].included_traffic), percent)}

\* invocation r is writing the all-clear payload
WritesAllClear(r) ==
    r.pc \in {"reportEdit", "reportSend"} /\ r.payload.kind = "final"

\* C11: the all-clear payload is written in a cycle only if always-send is
\* configured and no server of the snapshot is at or over the notify
\* threshold; never in a cycle with a KILL server whose shutdown failed.
C11_AllClearOnlyWhenNothingOverNotify ==
    \A c \in DOMAIN inv :
        WritesAllClear(inv[c]) =>
            sendAlways /\ OverThreshold(inv[c], THRESHOLD_PERCENT_NOTIF) = {}

\* C12: when a summary message exists from an earlier alert cycle, the
\* all-clear payload of a later cycle is written into the summary slot by
\* editing that message; no further report message is created beside it.
C12_AllClearReplacesSummary ==
    \A c \in DOMAIN inv :
        (WritesAllClear(inv[c]) /\ Lookup(embedMessages, SummaryKey) # NoMsg)
            => inv[c].key = SummaryKey /\ inv[c].pc = "reportEdit"

\* ------------------------------------------- classification, input by input
\* threshold percents the environment can configure, 0 included
ThresholdChoices == {0, DefaultNotif, DefaultKill}
\* counters a listing can report for one server: null, zero, values just
\* below and exactly at a threshold, and values whose two-decimal percentage
\* rounds up to a threshold
OutgoingChoices == {Null, 0, 49, 50, 89, 90, 10000, 18000}
IncludedChoices == {Null, 0, 100, 20001}

\* the first invocation is awaiting a listing that holds one server
InitClassify ==
    /\ variant \in {"multi", "index"}
    /\ apiTokens = IF variant = "multi" THEN <<TokA, TokB>> ELSE <<TokA>>
    /\ THRESHOLD_PERCENT_NOTIF \in ThresholdChoices
    /\ THRESHOLD_PERCENT_KILL \in ThresholdChoices
    /\ sendAlways = FALSE
    /\ obfuscate = FALSE
    /\ names = DefaultNames
    /\ history = NoHistory
    /\ MESSAGE_ID = NoMsg
    /\ dataFile = NoMsg
    /\ channelMsgs = {}
    /\ embedMessages = <<>>
    /\ handler = [pc |-> "checkAndUpdate", messages |-> {}, di |-> 1]
    /\ cycles = 1
    /\ nextId = FirstNewId
    /\ exited = "no"
    /\ \E o \in OutgoingChoices, i \in IncludedChoices :
         LET s == [id |-> 1, name |-> names[1], status |-> "running",
                   outgoing_traffic |-> o, included_traffic |-> i]
             listed == IF variant = "multi" THEN WithToken(s, apiTokens[1]) ELSE s
         IN inv = [c \in {1} |-> [NewInvocation EXCEPT !.allServers = <<listed>>]]

\* the listing has returned: allData is built and the servers are classified
ClassifyListed(c) ==
    /\ Running
    /\ inv[c].pc = "fetch"
    /\ Len(inv[c].allServers) > 0
    /\ Resume(c, Classify(inv[c], embedMessages))
    /\ UNCHANGED <<config, dataFile, channelMsgs, embedMessages, cycles, nextId, exited>>

NextClassify == \E c \in DOMAIN inv : ClassifyListed(c)

SpecClassify == InitClassify /\ [][NextClassify]_vars

\* the bucket the code put the listed server i of r in
Bucket(r, i) ==
    IF r.allServers[i].id \in Ids(r.toKill) THEN "KILL"
    ELSE IF r.allServers[i].id \in Ids(r.highUsage) THEN "NOTIFY" ELSE "OK"

\* the bucket the classification of the code gives to a pair of counters
Classified(outgoing, included) ==
    LET d == MakeData([id |-> 1, name |-> <<>>, status |-> "running",
                       outgoing_traffic |-> outgoing, included_traffic |-> included])
    IN IF IsKill(d) THEN "KILL" ELSE IF IsNotify(d) THEN "NOTIFY" ELSE "OK"

Severity(bucket) == IF bucket = "KILL" THEN 2 ELSE IF bucket = "NOTIFY" THEN 1 ELSE 0

\* rawRatio of (o1, i1) <= rawRatio of (o2, i2), the ratio being 0 when
\* nothing is included
RatioLeq(o1, i1, o2, i2) ==
    LET n1 == IF i1 = 0 THEN 0 ELSE o1
        d1 == IF i1 = 0 THEN 1 ELSE i1
        n2 == IF i2 = 0 THEN 0 ELSE o2
        d2 == IF i2 = 0 THEN 1 ELSE i2
    IN n1 * d2 <= n2 * d1

\* severity never decreases from the counters (o, i) to counters of the
\* input sets whose ratio is at least as large
Monotonic(o, i) ==
    \A o2 \in OutgoingChoices, i2 \in IncludedChoices :
        RatioLeq(o, i, OrZero(o2), OrZero(i2))
            => Severity(Classified(o, i)) <= Severity(Classified(o2, i2))

\* invocation r has classified its snapshot
HasClassified(r) == r.pc # "fetch"

\* C13 as stated: bucket = KILL iff included > 0 and outgoing / included >=
\* kill/100, else NOTIFY iff the ratio >= notify/100, else OK, for all
\* non-negative counters and thresholds, decided on the raw counters.
C13_BucketNeedsIncluded ==
    \A c \in DOMAIN inv : \A i \in 1..Len(inv[c].allServers) :
        LET o == OrZero(inv[c].allServers[i].outgoing_traffic)
            n == OrZero(inv[c].allServers[i].included_traffic)
        IN HasClassified(inv[c]) =>
              Bucket(inv[c], i) =
                  IF n > 0 /\ o * 100 >= THRESHOLD_PERCENT_KILL * n THEN "KILL"
                  ELSE IF RatioAtLeast(o, n, THRESHOLD_PERCENT_NOTIF) THEN "NOTIFY"
                  ELSE "OK"

\* C13: bucket = KILL iff rawRatio >= kill/100, else NOTIFY iff rawRatio >=
\* notify/100, else OK, where rawRatio = outgoing / included on the raw
\* counters and 0 when included = 0 (so with a kill threshold of 0 a server
\* with included = 0 is KILL); equality belongs to the higher bucket and the
\* severity is monotonic in rawRatio.
C13_BucketFromRawRatio ==
    \A c \in DOMAIN inv : \A i \in 1..Len(inv[c].allServers) :
        LET o == OrZero(inv[c].allServers[i].outgoing_traffic)
            n == OrZero(inv[c].allServers[i].included_traffic)
        IN HasClassified(inv[c]) =>
              /\ Bucket(inv[c], i) =
                    IF RatioAtLeast(o, n, THRESHOLD_PERCENT_KILL) THEN "KILL"
                    ELSE IF RatioAtLeast(o, n, THRESHOLD_PERCENT_NOTIF) THEN "NOTIFY"
                    ELSE "OK"
              /\ Bucket(inv[c], i) = Classified(o, n)
              /\ Monotonic(o, n)

\* C13 witness: a classified server whose counters are exactly at the kill
\* threshold, beside one whose percentage only rounds up to it
C13_Witness ==
    \E c \in DOMAIN inv :
        /\ HasClassified(inv[c])
        /\ THRESHOLD_PERCENT_KILL > THRESHOLD_PERCENT_NOTIF
        /\ THRESHOLD_PERCENT_NOTIF > 0
        /\ inv[c].allServers[1].included_traffic > 0
        /\ inv[c].allServers[1].outgoing_traffic * 100
               = THRESHOLD_PERCENT_KILL * inv[c].allServers[1].included_traffic
        /\ Bucket(inv[c], 1) = "KILL"

\* the listed servers of r that report no included traffic (zero or null)
NothingIncluded(r) ==
    {i \in 1..Len(r.allServers) : OrZero(r.allServers[i].included_traffic) = 0}

\* the server with no included traffic has rawRatio 0, is in bucket OK and
\* no shutdown request is issued for it
RatioZeroAndOK(r, i) ==
    /\ \A k \in 1..Len(r.allData) :
          r.allData[k].id = r.allServers[i].id
              => r.allData[k].rawPercentage.num = 0 /\ r.allData[k].limit = 0
    /\ Bucket(r, i) = "OK"
    /\ \A k \in 1..Len(r.reqs) : r.reqs[k].id # r.allServers[i].id

\* C14 as stated: with included = 0 (or missing) rawRatio is 0 and the
\* bucket is OK whatever outgoing is and for every pair of thresholds, a
\* threshold of 0 included; the server is never a shutdown candidate.
C14_NothingIncludedIsOKAtAnyThreshold ==
    \A c \in DOMAIN inv : \A i \in NothingIncluded(inv[c]) :
        HasClassified(inv[c]) => RatioZeroAndOK(inv[c], i)

\* C14: with included = 0 (or missing) rawRatio is 0, and for every pair of
\* thresholds greater than 0 the bucket is OK whatever outgoing is, so the
\* server is never a shutdown candidate.
C14_NothingIncludedIsOK ==
    \A c \in DOMAIN inv : \A i \in NothingIncluded(inv[c]) :
        (/\ HasClassified(inv[c])
         /\ THRESHOLD_PERCENT_NOTIF > 0
         /\ THRESHOLD_PERCENT_KILL > 0) => RatioZeroAndOK(inv[c], i)

\* C14 witness: a classified server with outgoing traffic and nothing
\* included, under thresholds greater than 0
C14_Witness ==
    \E c \in DOMAIN inv :
        /\ HasClassified(inv[c])
        /\ THRESHOLD_PERCENT_NOTIF > 0
        /\ THRESHOLD_PERCENT_KILL > 0
        /\ 1 \in NothingIncluded(inv[c])
        /\ inv[c].allServers[1].outgoing_traffic > 0
        /\ inv[c].allData[1].outgoing > 0

\* C15: a server whose shutdown request failed in one cycle and whose
\* counters are still at the kill threshold in the next cycle gets exactly
\* one request in that cycle, and no cycle asks twice for the same server.
C15_FailedShutdownIsRetriedNextCycle ==
    \A c \in DOMAIN inv :
        LET r == inv[c]
        IN /\ \A j, k \in 1..Len(r.reqs) : j # k => r.reqs[j].id # r.reqs[k].id
           /\ r.pc \notin {"fetch", "shutdown"} =>
                 \A i \in OverThreshold(r, THRESHOLD_PERCENT_KILL) :
                     r.allServers[i].id \in history.failed =>
                         Cardinality({k \in 1..Len(r.reqs) :
                                         r.reqs[k].id = r.allServers[i].id}) = 1

\* C15 witness: the request for a server failed in the cycle before, and
\* this cycle has asked again for it and has gone on to its reports
C15_Witness ==
    \E c \in DOMAIN inv :
        /\ c > 1
        /\ inv[c].pc \in {"embedSend", "embedEdit"}
        /\ \E k \in 1..Len(inv[c].reqs) : inv[c].reqs[k].id \in history.failed

\* the listing that invocation c awaits is answered with an error in this
\* step: the step adds no server to the snapshot
ListingFails(c) ==
    /\ c \in DOMAIN inv
    /\ inv[c].pc = "fetch"
    /\ \/ c \notin DOMAIN inv'
       \/ inv'[c] # inv[c] /\ inv'[c].allServers = inv[c].allServers

\* C16: when the listing of one credential fails, that credential is skipped
\* and the cycle goes on: the process keeps running, the snapshot keeps the
\* servers of the listings that succeeded, and the next credential is listed
\* or the cycle goes on to classification, shutdown and reporting.
C16_ListingFailureSkipsCredential ==
    [][\A c \in DOMAIN inv :
          ListingFails(c) =>
              /\ exited' = "no"
              /\ c \in DOMAIN inv' =>
                    /\ inv'[c].allServers = inv[c].allServers
                    /\ inv'[c].pc = "fetch" => inv'[c].ti = inv[c].ti + 1]_vars

\* invocation r has classified its snapshot and no server of it is at or
\* over a threshold
QuietCycle(r) ==
    /\ HasClassified(r)
    /\ OverThreshold(r, THRESHOLD_PERCENT_NOTIF) = {}
    /\ OverThreshold(r, THRESHOLD_PERCENT_KILL) = {}

\* this step is a step of invocation c
StepOf(c) == c \in DOMAIN inv /\ (c \notin DOMAIN inv' \/ inv'[c] # inv[c])

\* live messages of a slot
MessagesOf(msgs, key) == {m \in msgs : m.slot = key}

\* C17: a cycle without a NOTIFY or KILL server, always-send not configured,
\* issues no send and no edit for the summary or the all-clear slot; the
\* mappings of both slots and their messages stay as they were.
C17_QuietCycleLeavesReportAlone ==
    [][\A c \in DOMAIN inv :
          (StepOf(c) /\ QuietCycle(inv[c]) /\ ~sendAlways) =>
              /\ inv[c].pc \notin {"reportEdit", "reportSend"}
              /\ c \in DOMAIN inv' => inv'[c].pc \notin {"reportEdit", "reportSend"}
              /\ \A key \in {SummaryKey, FinalKey} :
                    /\ MessagesOf(channelMsgs', key) = MessagesOf(channelMsgs, key)
                    /\ exited' = "no" =>
                          Lookup(embedMessages', key) = Lookup(embedMessages, key)]_vars

\* C17 witness: the summary message of an earlier alert exists, always-send
\* is off, and a later cycle without any server over a threshold is writing
\* its last per-server report
C17_Witness ==
    \E c \in DOMAIN inv :
        /\ ~sendAlways
        /\ QuietCycle(inv[c])
        /\ Lookup(embedMessages, SummaryKey) \in LiveIds
        /\ inv[c].pc = "embedEdit"
        /\ inv[c].ei = Len(inv[c].allData)

\* ---------------------------------------------------- server names at large
\* names the second server can have beside "web": another one, the same one
\* (a server of another project), one that differs inside only
NameChoices == {<<"d", "b">>, <<"w", "e", "b">>, <<"w", "a", "b">>}

\* as Init, with the names and the obfuscation switch of the environment drawn;
\* within one project the provider keeps the names distinct
InitNames ==
    /\ InitCommon
    /\ sendAlways = FALSE
    /\ obfuscate \in BOOLEAN
    /\ names \in {[id \in ServerIds |-> IF id = 1 THEN DefaultNames[1] ELSE n] :
                     n \in NameChoices}
    /\ \A a, b \in ServerIds : (a # b /\ Owner(a) = Owner(b)) => names[a] # names[b]
    /\ history = NoHistory
    /\ \E l \in Leftovers :
         /\ channelMsgs = l.msgs
         /\ dataFile = l.ptr
         /\ MESSAGE_ID = l.ptr

SpecNames == InitNames /\ [][Next]_vars

\* C18: two different servers of a snapshot are never mapped to the same
\* message, whatever their names are and with or without obfuscation.
C18_ServersHaveDistinctSlots ==
    \A c \in DOMAIN inv : \A i, j \in 1..Len(inv[c].allData) :
        (/\ inv[c].allData[i].id # inv[c].allData[j].id
         /\ Lookup(embedMessages, Title(inv[c].allData[i])) # NoMsg)
        => Lookup(embedMessages, Title(inv[c].allData[i]))
               # Lookup(embedMessages, Title(inv[c].allData[j]))

\* ------------------------------------------------------ startup, at large
\* as Leftovers, and a channel that holds two messages older than two weeks
StartupLeftovers ==
    Leftovers \cup
    {[msgs |-> {[id |-> 1, old |-> TRUE, slot |-> <<"older run">>],
                [id |-> 2, old |-> TRUE, slot |-> <<"older run">>]}, ptr |-> NoMsg]}

InitStartup ==
    /\ InitCommon
    /\ sendAlways = FALSE
    /\ obfuscate = FALSE
    /\ names = DefaultNames
    /\ history = NoHistory
    /\ \E l \in StartupLeftovers :
         /\ channelMsgs = l.msgs
         /\ dataFile = l.ptr
         /\ MESSAGE_ID = l.ptr

\* a step of the 'ready' handler up to its call of checkAndUpdate
HandlerStep ==
    \/ MessagesFetched
    \/ BulkDelete
    \/ MessageDeleted
    \/ MessageDeleteFails
    \/ BulkDeleteAll
    \/ BulkDeleteAllThrows

\* every call the handler awaits is answered and the event loop then runs the
\* handler's continuation; which answer comes is not owed to the program
SpecStartup == InitStartup /\ [][Next]_vars /\ WF_vars(HandlerStep)

\* C19: for every content of the channel at startup the clearing loop ends
\* and the first cycle is started, also when single deletes fail.
C19_StartupReachesFirstCycle == <>(cycles >= 1)

\* the elements of a sequence
Range(seq) == {seq[i] : i \in 1..Len(seq)}

\* C20: the killed list and the high-usage list handed to the summary are
\* disjoint, and every server of the killed list is a server of the
\* snapshot at or over the kill threshold.
C20_KilledAndHighUsageDisjoint ==
    \A c \in DOMAIN inv :
        LET r == inv[c]
        IN /\ Ids(r.killed) \cap Ids(r.highUsage) = {}
           /\ r.embed.kind = "summary" =>
                 /\ Range(r.embed.killed) \cap Range(r.embed.servers) = {}
                 /\ Range(r.embed.killed) = Ids(r.killed)
                 /\ Range(r.embed.servers) = Ids(r.highUsage)
           /\ \A id \in Ids(r.killed) :
                 \E i \in Listed(r, id) : i \in OverThreshold(r, THRESHOLD_PERCENT_KILL)

\* C20 witness: a summary that lists a killed server and a high-usage server
C20_Witness ==
    \E c \in DOMAIN inv :
        /\ inv[c].embed.kind = "summary"
        /\ Len(inv[c].embed.killed) > 0
        /\ Len(inv[c].embed.servers) > 0
        /\ inv[c].pc \in {"reportEdit", "reportSend"}

====
